---- MODULE Spec2Model ----
(***************************************************************************)
(* Model of qtrangeslider/_style.py: the RangeSliderStyle record and its   *)
(* accessors (brush, pen, offset, thickness), the platform presets,        *)
(* parse_color and update_styles_from_stylesheet.                          *)
(*                                                                         *)
(* Python values held in style fields are tagged records (None, a str, a   *)
(* number, or a reference to a mutable Qt object on the heap).  Stylesheet *)
(* text is kept at token level: a text is a sequence of blocks, a block    *)
(* has a selector and a body, a body is a sequence of lines and a line is  *)
(* a sequence of declarations `prop: value`.  String concatenation of      *)
(* texts is sequence concatenation of their blocks.                        *)
(***************************************************************************)
EXTENDS Integers, Sequences, FiniteSets, TLC

VARIABLES
    SYSTEM,        \* platform.system()
    mac_major,     \* int(platform.mac_ver()[0].split(".")[0]), 0 when not Darwin
    depth,         \* number of ancestors of the slider (parent() chain length)
    sheet,         \* sheet[i]: styleSheet() of the slider (i = 0) and of its i-th ancestor
    app_sheet,     \* QApplication.instance().styleSheet()
    style,         \* obj._style, a RangeSliderStyle
    heap,          \* the live QColor / QGradient objects referenced from style
    pending,       \* a style-change notification of the slider is outstanding
    lastop,        \* the operation performed last, with its arguments
    ret,           \* value returned by that operation when it is an accessor call
    exc,           \* exception escaping that operation ("none" if it returned)
    searched,      \* qss, the text searched, when that operation is an extraction
    own_before,    \* the slider's own stylesheet when that extraction started
    bgval          \* the value string that extraction handed to parse_color

vars == <<SYSTEM, mac_major, depth, sheet, app_sheet, style, heap, pending,
          lastop, ret, exc, searched, own_before, bgval>>

----------------------------------------------------------------------------
(* Bounds of the model *)

MaxDepth == 1

MaxSheetLen == 2

----------------------------------------------------------------------------
(* Python values *)

None == [t |-> "None", s |-> "", n |-> 0]

Str(x) == [t |-> "str", s |-> x, n |-> 0]

Num(k) == [t |-> "num", s |-> "", n |-> k]

Ref(i) == [t |-> "ref", s |-> "", n |-> i]

\* Python truthiness: None, "" and 0 are falsy, objects are truthy
Truthy(v) ==
    CASE v.t = "None" -> FALSE
      [] v.t = "str"  -> v.s # ""
      [] v.t = "num"  -> v.n # 0
      [] OTHER        -> TRUE

\* a or b
Or(a, b) == IF Truthy(a) THEN a ELSE b

----------------------------------------------------------------------------
(* Qt constants and objects *)

NoTicks == 0

TicksAbove == 1

TicksBelow == 2

TicksBothSides == 3

TickPositions == {NoTicks, TicksAbove, TicksBelow, TicksBothSides}

\* tp & flag, for the one-bit flags TicksAbove and TicksBelow
BitAnd(tp, flag) == IF (tp \div flag) % 2 = 1 THEN flag ELSE 0

ColorGroups == {"Active", "Disabled", "Inactive"}

Orientations == {"Horizontal", "Vertical"}

\* the color strings QColor accepts, with the color each denotes
ColorTable ==
    [c \in {"#ff0000", "#0000ff", "red", "blue", "#333", "transparent",
            "#3B88FD", "#8F8F8F", "#BBBBBB", "#D2D2D2", "#0A81FE", "#D5D5D5",
            "#E6E6E6", "#44A0D9", "#286384"} |->
        CASE c = "red"  -> "#ff0000"
          [] c = "blue" -> "#0000ff"
          [] c = "#333" -> "#333333"
          [] c = "transparent" -> "#000000"
          [] OTHER -> c]

\* alpha is kept in tenths: 10 is opaque
Opaque == 10

\* QColor(name)
QColor(name) ==
    IF name \in DOMAIN ColorTable
        THEN [cls |-> "QColor", valid |-> TRUE, rgb |-> ColorTable[name],
              alpha |-> IF name = "transparent" THEN 0 ELSE Opaque,
              stop0 |-> "", stop1 |-> ""]
        ELSE [cls |-> "QColor", valid |-> FALSE, rgb |-> "", alpha |-> Opaque,
              stop0 |-> "", stop1 |-> ""]

\* QLinearGradient / QRadialGradient with setColorAt(0, c0) and setColorAt(1, c1)
QGradient(cls, c0, c1) ==
    [cls |-> cls, valid |-> TRUE, rgb |-> "", alpha |-> Opaque,
     stop0 |-> QColor(c0).rgb, stop1 |-> QColor(c1).rgb]

NoObject == [cls |-> "", valid |-> FALSE, rgb |-> "", alpha |-> 0, stop0 |-> "", stop1 |-> ""]

----------------------------------------------------------------------------
(* RangeSliderStyle and the platform presets *)

RangeSliderStyle ==
    [brush_active |-> None, brush_inactive |-> None, brush_disabled |-> None,
     pen_active |-> None, pen_inactive |-> None, pen_disabled |-> None,
     vertical_thickness |-> None, horizontal_thickness |-> None,
     tick_offset |-> None, tick_bar_alpha |-> None,
     v_offset |-> None, h_offset |-> None,
     has_stylesheet |-> FALSE]

BASE_STYLE ==
    [brush_active |-> Str("#3B88FD"), brush_inactive |-> Str("#8F8F8F"),
     brush_disabled |-> Str("#BBBBBB"),
     pen_active |-> Str("transparent"), pen_inactive |-> Str("transparent"),
     pen_disabled |-> Str("transparent"),
     vertical_thickness |-> Num(4), horizontal_thickness |-> Num(4),
     tick_offset |-> Num(0), tick_bar_alpha |-> Num(3),
     v_offset |-> Num(0), h_offset |-> Num(0),
     has_stylesheet |-> FALSE]

CATALINA_STYLE ==
    [BASE_STYLE EXCEPT
        !.brush_active = Str("#3B88FD"), !.brush_inactive = Str("#8F8F8F"),
        !.brush_disabled = Str("#D2D2D2"),
        !.horizontal_thickness = Num(3), !.vertical_thickness = Num(3),
        !.tick_bar_alpha = Num(3), !.tick_offset = Num(4)]

BIG_SUR_STYLE ==
    [CATALINA_STYLE EXCEPT
        !.brush_active = Str("#0A81FE"), !.brush_inactive = Str("#D5D5D5"),
        !.brush_disabled = Str("#E6E6E6"),
        !.tick_offset = Num(0),
        !.horizontal_thickness = Num(4), !.vertical_thickness = Num(4),
        !.h_offset = Num(0 - 2), !.tick_bar_alpha = Num(2)]

LINUX_STYLE ==
    [BASE_STYLE EXCEPT
        !.brush_active = Str("#44A0D9"), !.brush_inactive = Str("#44A0D9"),
        !.brush_disabled = Str("#44A0D9"),
        !.pen_active = Str("#286384"), !.pen_inactive = Str("#286384"),
        !.pen_disabled = Str("#286384")]

Platforms ==
    {<<"Darwin", 10>>, <<"Darwin", 11>>, <<"Windows", 0>>, <<"Linux", 0>>, <<"Java", 0>>}

SYSTEM_STYLE ==
    IF SYSTEM = "Darwin"
        THEN IF mac_major >= 11 THEN BIG_SUR_STYLE ELSE CATALINA_STYLE
    ELSE IF SYSTEM = "Windows" THEN BASE_STYLE
    ELSE IF SYSTEM = "Linux" THEN LINUX_STYLE
    ELSE BASE_STYLE

----------------------------------------------------------------------------
(* Accessors.  Each returns [exc, val, obj, heap]: the exception raised (or *)
(* "none"), the Python value returned, the object returned when the value   *)
(* is a Qt object, and the heap after the call.                             *)

Result(e, v, o, h) == [exc |-> e, val |-> v, obj |-> o, heap |-> h]

\* val.setAlphaF(a) on the object val denotes; QGradient has no setAlphaF.
\* val is a heap reference, or a temporary QColor built from a str.
SetAlphaF(val, tmp, h, a) ==
    IF val.t = "ref"
        THEN IF h[val.n].cls = "QColor"
                THEN Result("none", val, [h[val.n] EXCEPT !.alpha = a],
                            [h EXCEPT ![val.n].alpha = a])
                ELSE Result("AttributeError", None, NoObject, h)
        ELSE Result("none", val, [tmp EXCEPT !.alpha = a], h)

BrushAttr(cg) ==
    CASE cg = "Active"   -> "brush_active"
      [] cg = "Disabled" -> "brush_disabled"
      [] cg = "Inactive" -> "brush_inactive"

PenAttr(cg) ==
    CASE cg = "Active"   -> "pen_active"
      [] cg = "Disabled" -> "pen_disabled"
      [] cg = "Inactive" -> "pen_inactive"

\* the object a resolved value denotes: str -> QColor(str), ref -> the heap object
Deref(val, h) ==
    IF val.t = "str" THEN QColor(val.s)
    ELSE IF val.t = "ref" THEN h[val.n]
    ELSE NoObject

\* RangeSliderStyle.brush
brush(self, sys, h, cg, tp) ==
    LET val == Or(self[BrushAttr(cg)], sys[BrushAttr(cg)])
        tmp == Deref(val, h)
    IN  IF tp # NoTicks
            THEN IF val.t \in {"str", "ref"}
                    THEN SetAlphaF(val, tmp, h, Or(self.tick_bar_alpha, sys.tick_bar_alpha).n)
                    ELSE Result("AttributeError", None, NoObject, h)
            ELSE Result("none", val, tmp, h)

\* RangeSliderStyle.pen
pen(self, sys, h, cg, tp) ==
    LET val == Or(self[PenAttr(cg)], sys[PenAttr(cg)])
        tmp == Deref(val, h)
    IN  IF ~Truthy(val)
            THEN Result("none", Str("NoPen"), NoObject, h)
        ELSE IF tp # NoTicks
            THEN SetAlphaF(val, tmp, h, Or(self.tick_bar_alpha, sys.tick_bar_alpha).n)
            ELSE Result("none", val, tmp, h)

\* offset without the has_stylesheet test
offset_ignoring_stylesheet(self, sys, orientation, tp) ==
    LET base == IF orientation = "Horizontal"
                    THEN Or(Or(self.h_offset, sys.h_offset), Num(0)).n
                    ELSE Or(Or(self.v_offset, sys.v_offset), Num(0)).n
        tick == Or(self.tick_offset, sys.tick_offset).n
    IN  IF BitAnd(tp, TicksAbove) # 0 THEN base + tick
        ELSE IF BitAnd(tp, TicksBelow) # 0 THEN base - tick
        ELSE base

\* RangeSliderStyle.offset
offset(self, sys, orientation, tp) ==
    LET base == IF orientation = "Horizontal"
                    THEN Or(Or(self.h_offset, sys.h_offset), Num(0)).n
                    ELSE Or(Or(self.v_offset, sys.v_offset), Num(0)).n
        tick == Or(self.tick_offset, sys.tick_offset).n
    IN  IF ~self.has_stylesheet
            THEN IF BitAnd(tp, TicksAbove) # 0 THEN base + tick
                 ELSE IF BitAnd(tp, TicksBelow) # 0 THEN base - tick
                 ELSE base
            ELSE 0

\* RangeSliderStyle.thickness
thickness(self, sys, orientation) ==
    IF orientation = "Horizontal"
        THEN Or(self.horizontal_thickness, sys.horizontal_thickness)
        ELSE Or(self.vertical_thickness, sys.vertical_thickness)

----------------------------------------------------------------------------
(* Stylesheet text *)

Decl(p, v) == [prop |-> p, val |-> v]

Block(c, sl, o, b) == [cls |-> c, sel |-> sl, orient |-> o, body |-> b]

\* strings matched by qlineargrad_pattern, with the groups stop0 and stop1
qlineargrad_pattern ==
    [c \in {"qlineargradient(x1:0, y1:0, x2:1, y2:0, stop:0 red, stop:1 blue)"} |->
        <<"red", "blue">>]

\* strings matched by qradial_pattern, with the groups stop0 and stop1
qradial_pattern ==
    [c \in {"qradialgradient(cx:0, cy:0, radius:1, fx:0, fy:0, stop:0 blue, stop:1 red)"} |->
        <<"blue", "red">>]

\* strings matched by (\d+), with float() of the match
Digits == [c \in {"10", "6", "8"} |-> CASE c = "10" -> 10 [] c = "6" -> 6 [] c = "8" -> 8]

\* parse_color: [exc, val, obj] where val is Str(..) for a str result and
\* Ref(1) for a newly created Qt object obj
parse_color(color) ==
    LET qc == QColor(color)
        lin == color \in DOMAIN qlineargrad_pattern
        match == color \in DOMAIN qradial_pattern
    IN  IF qc.valid
            THEN [exc |-> "none", val |-> Ref(1), obj |-> qc]
        ELSE IF lin
            THEN [exc |-> "none", val |-> Ref(1),
                  obj |-> QGradient("QLinearGradient", qlineargrad_pattern[color][1],
                                    qlineargrad_pattern[color][2])]
        \* print("match", match.groupdict()) with match = None
        ELSE IF ~match
            THEN [exc |-> "AttributeError", val |-> None, obj |-> NoObject]
        ELSE IF match
            THEN [exc |-> "none", val |-> Ref(1),
                  obj |-> QGradient("QRadialGradient", qradial_pattern[color][1],
                                    qradial_pattern[color][2])]
        ELSE [exc |-> "none", val |-> Str("#333"), obj |-> NoObject]

\* the loop over p.parent(): node p has a parent iff p < d
RECURSIVE WalkParents(_, _, _, _)
WalkParents(sh, d, p, qss) ==
    IF p < d THEN WalkParents(sh, d, p + 1, sh[p] \o qss) ELSE qss

\* qss as update_styles_from_stylesheet accumulates it
AccumulatedQss(sh, app, d) == app \o WalkParents(sh, d, 0, sh[0])

\* the least index in the set S of indices, 0 if S is empty
FirstIndex(S) == IF S = {} THEN 0 ELSE CHOOSE i \in S : \A j \in S : i <= j

\* the greatest index in the set S of indices, 0 if S is empty
LastIndex(S) == IF S = {} THEN 0 ELSE CHOOSE i \in S : \A j \in S : j <= i

IsBackground(d) == d.prop \in {"background", "background-color"}

IsSubPage(b) == b.sel = "sub-page" /\ Len(b.body) > 0

\* re.search(r"Slider::sub-page:?([^{\s]*)?\s*{\s*([^}]+)}", qss): the first match
SubPageMatch(qss) == FirstIndex({i \in 1..Len(qss) : IsSubPage(qss[i])})

\* re.search(r"background(-color)?:\s*([^;]+)", line): the first match in the line
LineBackground(line) == FirstIndex({i \in 1..Len(line) : IsBackground(line[i])})

LineHasBackground(line) == LineBackground(line) # 0

\* for line in reversed(content.splitlines()): the first line, scanning
\* backward, in which the search matches; "" when no line matches
BlockBackground(b) ==
    LET l == LastIndex({i \in 1..Len(b.body) : LineHasBackground(b.body[i])})
    IN  IF l = 0 THEN "" ELSE b.body[l][LineBackground(b.body[l])].val

IsDimension(d, dim) == d.prop = dim /\ d.val \in DOMAIN Digits

\* re.search(rf"{dim}\s*:\s*(\d+)", line): the first match in the line
LineDimension(line, dim) == FirstIndex({i \in 1..Len(line) : IsDimension(line[i], dim)})

\* the same backward scan for the dimension
BlockDimension(b, dim) ==
    LET l == LastIndex({i \in 1..Len(b.body) : LineDimension(b.body[i], dim) # 0})
    IN  IF l = 0 THEN "" ELSE b.body[l][LineDimension(b.body[l], dim)].val

IsGrooveOf(b, orient) == b.sel = "groove" /\ b.orient = orient /\ Len(b.body) > 0

\* re.search(rf"Slider::groove:{orient}\s*{{\s*([^}}]+)}}", qss): the first match
GrooveMatch(qss, orient) == FirstIndex({i \in 1..Len(qss) : IsGrooveOf(qss[i], orient)})

\* the groove block of one orientation, then the scan
GrooveDimension(qss, orient, dim) ==
    LET g == GrooveMatch(qss, orient)
    IN  IF g = 0 THEN "" ELSE BlockDimension(qss[g], dim)

\* "\n{class_name}::sub-page:{orientation}{{background: none}}"
SuppressionRule(orientation) ==
    Block("QRangeSlider", "sub-page", orientation, << <<Decl("background", "none")>> >>)

\* the thickness loop of update_styles_from_stylesheet
ApplyThickness(st, qss) ==
    LET h == GrooveDimension(qss, "horizontal", "height")
        v == GrooveDimension(qss, "vertical", "width")
        st1 == IF h = "" THEN st
               ELSE [st EXCEPT !.horizontal_thickness = Num(Digits[h]),
                               !.has_stylesheet = TRUE]
    IN  IF v = "" THEN st1
        ELSE [st1 EXCEPT !.vertical_thickness = Num(Digits[v]), !.has_stylesheet = TRUE]

\* update_styles_from_stylesheet(obj): [exc, style, heap, own, wrote, qss, bg]
update_styles_from_stylesheet(st, h, sh, app, d) ==
    LET qss == AccumulatedQss(sh, app, d)
        st0 == [st EXCEPT !.has_stylesheet = FALSE]
        m == SubPageMatch(qss)
        bg == IF m = 0 THEN "" ELSE BlockBackground(qss[m])
        pc == parse_color(bg)
    IN  IF bg = ""
            THEN [exc |-> "none", style |-> ApplyThickness(st0, qss), heap |-> h,
                  own |-> sh[0], wrote |-> FALSE, qss |-> qss, bg |-> bg]
        ELSE IF pc.exc # "none"
            THEN [exc |-> pc.exc, style |-> st0, heap |-> h,
                  own |-> sh[0], wrote |-> FALSE, qss |-> qss, bg |-> bg]
        ELSE [exc |-> "none",
              style |-> ApplyThickness(
                            [st0 EXCEPT !.brush_active = pc.val, !.brush_inactive = pc.val,
                                        !.brush_disabled = pc.val, !.has_stylesheet = TRUE],
                            qss),
              \* the objects the three fields referred to before are released
              heap |-> IF pc.val.t = "ref" THEN <<pc.obj>> ELSE h,
              own |-> qss \o <<SuppressionRule(qss[m].orient)>>,
              wrote |-> TRUE, qss |-> qss, bg |-> bg]

----------------------------------------------------------------------------
(* Inputs: the stylesheet texts assigned to the widgets *)

LinearText == "qlineargradient(x1:0, y1:0, x2:1, y2:0, stop:0 red, stop:1 blue)"

RadialText == "qradialgradient(cx:0, cy:0, radius:1, fx:0, fy:0, stop:0 blue, stop:1 red)"

\* QRangeSlider::sub-page:horizontal { background-color: #ff0000; }
\* QRangeSlider::groove:horizontal { height: 10; }
RedSheet ==
    << Block("QRangeSlider", "sub-page", "horizontal",
             << <<Decl("background-color", "#ff0000")>> >>),
       Block("QRangeSlider", "groove", "horizontal", << <<Decl("height", "10")>> >>) >>

\* two declarations on separate lines
TwoLineSheet ==
    << Block("QRangeSlider", "sub-page", "",
             << <<Decl("background", "red")>>, <<Decl("background", "blue")>> >>) >>

\* two declarations on one line
OneLineSheet ==
    << Block("QRangeSlider", "sub-page", "",
             << <<Decl("background", "red"), Decl("background", "blue")>> >>) >>

LinearSheet ==
    << Block("QRangeSlider", "sub-page", "", << <<Decl("background", LinearText)>> >>) >>

RadialSheet ==
    << Block("QRangeSlider", "sub-page", "vertical", << <<Decl("background", RadialText)>> >>) >>

GarbageSheet ==
    << Block("QRangeSlider", "sub-page", "", << <<Decl("background", "garbage")>> >>) >>

\* QSlider::groove:vertical { width: 6; width: 8; }
GrooveSheet ==
    << Block("QSlider", "groove", "vertical",
             << <<Decl("width", "6"), Decl("width", "8")>> >>) >>

\* a block the extraction does not look at
LabelSheet ==
    << Block("QLabel", "", "", << <<Decl("color", "red")>> >>) >>

OwnSheets ==
    {<<>>, RedSheet, TwoLineSheet, OneLineSheet, LinearSheet, GarbageSheet, GrooveSheet}

AncestorSheets == {<<>>, LabelSheet}

AppSheets == {<<>>, RadialSheet}

\* values assigned to the instance's numeric fields
FieldValues == {Num(0), Num(3)}

AssignableFields == {"h_offset", "v_offset", "tick_offset"}

----------------------------------------------------------------------------------------------------------------------------------------
(* State machine *)

Op(o, cg, tp, orient) == [op |-> o, cg |-> cg, tp |-> tp, orient |-> orient]

NoReturn == [val |-> None, obj |-> NoObject]

Init ==
    /\ \E pl \in Platforms : SYSTEM = pl[1] /\ mac_major = pl[2]
    /\ depth \in 0..MaxDepth
    /\ sheet \in [0..depth -> AncestorSheets]
    /\ sheet[0] = <<>>
    /\ app_sheet \in AppSheets
    /\ style = RangeSliderStyle
    /\ heap = <<>>
    /\ pending = FALSE
    /\ lastop = Op("init", "", NoTicks, "")
    /\ ret = NoReturn
    /\ exc = "none"
    /\ searched = <<>>
    /\ own_before = <<>>
    /\ bgval = ""

\* what an operation other than the extraction leaves in the extraction's record
NoExtraction == searched' = <<>> /\ own_before' = <<>> /\ bgval' = ""

\* obj.setStyleSheet(text) by the application
SetStyleSheet(text) ==
    /\ sheet' = [sheet EXCEPT ![0] = text]
    /\ pending' = TRUE
    /\ lastop' = Op("setStyleSheet", "", NoTicks, "")
    /\ ret' = NoReturn
    /\ exc' = "none"
    /\ NoExtraction
    /\ UNCHANGED <<SYSTEM, mac_major, depth, app_sheet, style, heap>>

\* obj._style.<field> = v
SetField(field, v) ==
    /\ style' = [style EXCEPT ![field] = v]
    /\ lastop' = Op("setField", "", NoTicks, "")
    /\ ret' = NoReturn
    /\ exc' = "none"
    /\ NoExtraction
    /\ UNCHANGED <<SYSTEM, mac_major, depth, sheet, app_sheet, heap, pending>>

\* update_styles_from_stylesheet(obj)
UpdateStyles ==
    /\ Len(sheet[0]) <= MaxSheetLen
    /\ LET r == update_styles_from_stylesheet(style, heap, sheet, app_sheet, depth)
       IN  /\ style' = r.style
           /\ heap' = r.heap
           /\ sheet' = [sheet EXCEPT ![0] = r.own]
           /\ pending' = r.wrote
           /\ exc' = r.exc
           /\ searched' = r.qss
           /\ bgval' = r.bg
    /\ own_before' = sheet[0]
    /\ lastop' = Op("update", "", NoTicks, "")
    /\ ret' = NoReturn
    /\ UNCHANGED <<SYSTEM, mac_major, depth, app_sheet>>

Accessed(o, cg, tp, orient, r) ==
    /\ lastop' = Op(o, cg, tp, orient)
    /\ ret' = [val |-> r.val, obj |-> r.obj]
    /\ exc' = r.exc
    /\ heap' = r.heap
    /\ NoExtraction
    /\ UNCHANGED <<SYSTEM, mac_major, depth, sheet, app_sheet, style, pending>>

Brush(cg, tp) == Accessed("brush", cg, tp, "", brush(style, SYSTEM_STYLE, heap, cg, tp))

Pen(cg, tp) == Accessed("pen", cg, tp, "", pen(style, SYSTEM_STYLE, heap, cg, tp))

Offset(orient, tp) ==
    Accessed("offset", "", tp, orient,
             Result("none", Num(offset(style, SYSTEM_STYLE, orient, tp)), NoObject, heap))

Thickness(orient) ==
    Accessed("thickness", "", NoTicks, orient,
             Result("none", thickness(style, SYSTEM_STYLE, orient), NoObject, heap))

\* Stylesheets, extraction and the fill
Next ==
    \/ \E text \in OwnSheets : SetStyleSheet(text)
    \/ UpdateStyles
    \/ \E cg \in ColorGroups, tp \in TickPositions : Brush(cg, tp)

Spec == Init /\ [][Next]_vars

\* Instance field assignments, extraction, geometry and outline, for a
\* top-level slider
InitOffset == Init /\ depth = 0 /\ app_sheet = <<>>

NextOffset ==
    \/ \E text \in {<<>>, RedSheet, GrooveSheet} : SetStyleSheet(text)
    \/ \E f \in AssignableFields, v \in FieldValues : SetField(f, v)
    \/ UpdateStyles
    \/ \E o \in Orientations, tp \in TickPositions : Offset(o, tp)
    \/ \E o \in Orientations : Thickness(o)
    \/ \E cg \in ColorGroups, tp \in TickPositions : Pen(cg, tp)

SpecOffset == InitOffset /\ [][NextOffset]_vars

\* The toolkit delivers a style-change event for every setStyleSheet call and
\* the slider handles it by running the extraction; one external assignment.
ExternalAssign(text) == lastop.op = "init" /\ SetStyleSheet(text)

StyleChangeEvent == pending /\ UpdateStyles

NextEvent ==
    \/ \E text \in OwnSheets : ExternalAssign(text)
    \/ StyleChangeEvent

SpecEvent == Init /\ [][NextEvent]_vars /\ WF_vars(StyleChangeEvent)

----------------------------------------------------------------------------
(* Properties *)

Unrecognized(color) ==
    /\ ~QColor(color).valid
    /\ color \notin DOMAIN qlineargrad_pattern
    /\ color \notin DOMAIN qradial_pattern

\* C1: no exception escapes an extraction, and an extraction whose background
\* value is neither a valid color nor a linear nor a radial gradient applies
\* the fallback dark gray "#333".
C1_UnrecognizedFallsBack ==
    lastop.op = "update" =>
        /\ exc = "none"
        /\ (bgval # "" /\ Unrecognized(bgval)) => style.brush_active = Str("#333")

\* the fill brush resolves for a color group
ResolvedFill(cg) == Or(style[BrushAttr(cg)], SYSTEM_STYLE[BrushAttr(cg)])

IsGradient(val) == val.t = "ref" /\ heap[val.n].cls \in {"QLinearGradient", "QRadialGradient"}

\* C2: brush raises nothing for any color group, tick position and resolved
\* fill, and returns a resolved gradient unmodified, ticks or not.
C2_BrushNeverFails ==
    lastop.op = "brush" =>
        /\ exc = "none"
        /\ IsGradient(ResolvedFill(lastop.cg)) =>
               /\ ret.val = ResolvedFill(lastop.cg)
               /\ ret.obj = heap[ResolvedFill(lastop.cg).n]

\* instance value if the instance sets a number (0 included), else the default's
SetOrDefault(a, b) == IF a.t = "num" THEN a ELSE b

\* the offset as C3 states it
ClaimedOffset(self, sys, orientation, tp) ==
    LET base == IF orientation = "Horizontal"
                    THEN SetOrDefault(self.h_offset, SetOrDefault(sys.h_offset, Num(0))).n
                    ELSE SetOrDefault(self.v_offset, SetOrDefault(sys.v_offset, Num(0))).n
        tick == SetOrDefault(self.tick_offset, sys.tick_offset).n
    IN  CASE tp = TicksAbove -> base + tick
          [] tp = TicksBelow -> base - tick
          [] tp = NoTicks    -> base

\* C3: without a stylesheet override, offset is base + tick (ticks above),
\* base - tick (ticks below) or base (no ticks), base and tick being the
\* instance's value whenever the instance sets a number, 0 included.
C3_OffsetSum ==
    (lastop.op = "offset" /\ ~style.has_stylesheet
        /\ lastop.tp \in {NoTicks, TicksAbove, TicksBelow}) =>
        ret.val = Num(ClaimedOffset(style, SYSTEM_STYLE, lastop.orient, lastop.tp))

\* C4: while has_stylesheet is true, offset is 0 for every orientation and
\* tick position, whatever the instance's and the platform's offsets are.
C4_StylesheetOffsetZero ==
    style.has_stylesheet =>
        /\ \A o \in Orientations, tp \in TickPositions :
               offset(style, SYSTEM_STYLE, o, tp) = 0
        /\ lastop.op = "offset" => ret.val = Num(0)

\* C4 witness: offset was called with ticks above on a style with a stylesheet
\* override whose instance offsets are both 3, and returned 0.
C4_Witness ==
    /\ lastop = Op("offset", "", TicksAbove, "Horizontal")
    /\ style.has_stylesheet
    /\ style.h_offset = Num(3)
    /\ style.tick_offset = Num(3)
    /\ ret.val = Num(0)

\* the value of the last background declaration written in block b
LastBackground(b) ==
    LET l == LastIndex({i \in 1..Len(b.body) : LineHasBackground(b.body[i])})
    IN  IF l = 0 THEN ""
        ELSE b.body[l][LastIndex({i \in 1..Len(b.body[l]) : IsBackground(b.body[l][i])})].val

\* the value of the last declaration of dimension dim written in block b
LastDimension(b, dim) ==
    LET l == LastIndex({i \in 1..Len(b.body) : LineDimension(b.body[i], dim) # 0})
    IN  IF l = 0 THEN ""
        ELSE b.body[l][LastIndex({i \in 1..Len(b.body[l]) :
                                     IsDimension(b.body[l][i], dim)})].val

\* C5: the fill applied is the value of the last background declaration of
\* the matched sub-page block, and the thickness applied is the value of the
\* last height (width) declaration of the matched groove block, whether the
\* declarations share a line or not.
C5_LastDeclarationWins ==
    (lastop.op = "update" /\ exc = "none") =>
        /\ bgval # "" =>
               Deref(style.brush_active, heap)
                   = parse_color(LastBackground(searched[SubPageMatch(searched)])).obj
        /\ \A od \in {<<"horizontal", "height">>, <<"vertical", "width">>} :
               LET g == GrooveMatch(searched, od[1])
                   last == IF g = 0 THEN "" ELSE LastDimension(searched[g], od[2])
               IN  last # "" =>
                       style[IF od[1] = "horizontal" THEN "horizontal_thickness"
                             ELSE "vertical_thickness"] = Num(Digits[last])

\* C6: after an extraction the style reflects the searched text only: no
\* sub-page background in it, no fill; no groove height (width) in it, no
\* horizontal (vertical) thickness; empty text, a fully unset style.
C6_ReflectsLatestText ==
    (lastop.op = "update" /\ exc = "none") =>
        /\ (\A i \in 1..Len(searched) :
                IsSubPage(searched[i]) => BlockBackground(searched[i]) = "") =>
               /\ style.brush_active = None
               /\ style.brush_inactive = None
               /\ style.brush_disabled = None
        /\ (\A i \in 1..Len(searched) :
                IsGrooveOf(searched[i], "horizontal") =>
                    BlockDimension(searched[i], "height") = "") =>
               style.horizontal_thickness = None
        /\ (\A i \in 1..Len(searched) :
                IsGrooveOf(searched[i], "vertical") =>
                    BlockDimension(searched[i], "width") = "") =>
               style.vertical_thickness = None
        /\ searched = <<>> => style = RangeSliderStyle

\* the stylesheets of ancestors i, i-1, .., 1: outermost first
RECURSIVE OuterToInner(_, _)
OuterToInner(sh, i) == IF i = 0 THEN <<>> ELSE sh[i] \o OuterToInner(sh, i - 1)

\* C7: the text searched is the application stylesheet, then every ancestor's
\* from the outermost (the parentless top-level one) to the innermost, then
\* the slider's own, each once.
C7_SearchedText ==
    lastop.op = "update" =>
        searched = app_sheet \o OuterToInner(sheet, depth) \o own_before

IsSuppression(b) == \E o \in {"", "horizontal", "vertical"} : b = SuppressionRule(o)

\* C8: an extraction that finds a fill declaration leaves the slider's own
\* stylesheet equal to what it was followed by one suppression rule; one that
\* finds none leaves it unchanged.
C8_AppendOnly ==
    (lastop.op = "update" /\ exc = "none") =>
        IF bgval # ""
            THEN /\ Len(sheet[0]) = Len(own_before) + 1
                 /\ SubSeq(sheet[0], 1, Len(own_before)) = own_before
                 /\ IsSuppression(sheet[0][Len(sheet[0])])
            ELSE sheet[0] = own_before

\* C9: when every setStyleSheet call re-runs the extraction, the suppression
\* rule is appended to the slider's stylesheet once after an external
\* assignment, not once per reparse.
C9_AppendedOnce ==
    Cardinality({i \in 1..Len(sheet[0]) : IsSuppression(sheet[0][i])}) <= 1

\* C10: an accessor call leaves the style record and the objects it refers
\* to unchanged.
C10_AccessorsPure ==
    [][lastop'.op \in {"brush", "pen", "offset", "thickness"} =>
           (style' = style /\ heap' = heap)]_vars

====
